---- MODULE Spec2Model ----
(***************************************************************************)
(* Model of the state-synchronisation core of markdown-ai-canvas:          *)
(*   - limitChatHistory / validateChatHistoryLimit   (src/types/index.ts)  *)
(*   - appStateReducer and the AppStateProvider callbacks, including the   *)
(*     sendPromptAndUpdateCode orchestration (contexts/AppStateContext.tsx)*)
(*   - AIService.sendRequest with its timeout race (services/aiService.ts) *)
(*                                                                         *)
(* Text is a sequence of tokens (strings); the empty sequence is ''.       *)
(* An optional value is <<>> for null and <<v>> for the value v.           *)
(*                                                                         *)
(* log is bookkeeping: the messages dispatched with ADD_MESSAGE since the     *)
(* last CLEAR_HISTORY or RESET_STATE.                                      *)
(*                                                                         *)
(* toasts is the list of useToast; comps holds, by toast id, the           *)
(* ToastNotification component made for it and the timers it started.      *)
(*                                                                         *)
(* listeners is the Map of IntegrationEventBus, from an event type to the  *)
(* array of its callbacks; arrays holds the array objects by reference (a  *)
(* cleared Map leaves the arrays to the closures that captured them); subs *)
(* holds the unsubscribe closures that subscribe returned.                 *)
(*                                                                         *)
(* React keeps two copies of the application state: the reducer's current  *)
(* state (store) and the state captured by the callbacks of the last       *)
(* render (rendered).  sendPromptAndUpdateCode reads the latter.           *)
(***************************************************************************)
EXTENDS Integers, Sequences, FiniteSets, TLC

VARIABLES store, rendered, orchs, calls, last, log, toasts, comps,
          listeners, arrays, subs

vars == <<store, rendered, orchs, calls, last, log, toasts, comps,
          listeners, arrays, subs>>

(***************************************************************************)
(* Bounds of the model                                                     *)
(***************************************************************************)
\* accepted submissions per behaviour
MaxSubmits == 2
\* direct calls of the store's callbacks per behaviour, by any caller
MaxCalls == 1
\* direct calls of the store's callbacks per behaviour, by the rendered UI
MaxUICalls == 3
\* calls of the store's callbacks per behaviour, with no orchestration
MaxStoreCalls == 8
\* length of the histories given to limitChatHistory
MaxLen == 8
\* distinct messages in the histories given to limitChatHistory
MaxSamples == 2
\* toasts added per behaviour
MaxToasts == 2
\* clicks on the close button of one toast
MaxClicks == 1
\* direct calls of removeToast and clearToasts per behaviour
MaxToastCalls == 2
\* toasts added per behaviour, with no container
MaxListed == 3
\* calls of removeToast and clearToasts per behaviour, with no container
MaxListCalls == 3
\* calls of removeToast / clearToasts by users of the hook, where timers are
\* required to run
MaxLiveCalls == 1
\* calls of subscribe per behaviour
MaxSubs == 3
\* calls of emit, clear and unsubscribe functions per behaviour
MaxBusCalls == 3

(***************************************************************************)
(* Program constants                                                       *)
(***************************************************************************)
contextLimit == 3

Null == <<>>

Some(v) == <<v>>

(***************************************************************************)
(* Text helpers                                                            *)
(***************************************************************************)
IsSpace(c) == c \in {" ", "\t", "\n"}

RECURSIVE TrimStart(_)
TrimStart(s) ==
  IF s # <<>> /\ IsSpace(Head(s)) THEN TrimStart(Tail(s)) ELSE s

RECURSIVE TrimEnd(_)
TrimEnd(s) ==
  IF s # <<>> /\ IsSpace(s[Len(s)]) THEN TrimEnd(SubSeq(s, 1, Len(s) - 1)) ELSE s

\* String.prototype.trim
Trim(s) == TrimEnd(TrimStart(s))

\* String.prototype.includes, on token sequences
Includes(s, needle) ==
  \E i \in 1..(Len(s) - Len(needle) + 1) : SubSeq(s, i, i + Len(needle) - 1) = needle

\* Array.prototype.slice(-n)
SliceLast(s, n) ==
  IF Len(s) <= n THEN s ELSE SubSeq(s, Len(s) - n + 1, Len(s))

(***************************************************************************)
(* src/types/index.ts                                                      *)
(***************************************************************************)
maxMessages == contextLimit * 2

\* validateChatHistoryLimit with < for <=
validateChatHistoryLimitStrict(chatHistory) == Len(chatHistory) < maxMessages

validateChatHistoryLimit(chatHistory) == Len(chatHistory) <= maxMessages

\* limitChatHistory without its slice
limitChatHistoryUnbounded(chatHistory) == chatHistory

\* limitChatHistory with slice(0, maxMessages)
limitChatHistoryOldest(chatHistory) ==
  IF Len(chatHistory) <= maxMessages
  THEN chatHistory
  ELSE SubSeq(chatHistory, 1, maxMessages)

\* limitChatHistory with slice(-contextLimit)
limitChatHistoryTurns(chatHistory) ==
  IF Len(chatHistory) <= maxMessages
  THEN chatHistory
  ELSE SliceLast(chatHistory, contextLimit)

\* limitChatHistory with slice(maxMessages)
limitChatHistorySliceFrom(chatHistory) ==
  IF Len(chatHistory) <= maxMessages
  THEN chatHistory
  ELSE SubSeq(chatHistory, maxMessages + 1, Len(chatHistory))

limitChatHistory(chatHistory) ==
  IF Len(chatHistory) <= maxMessages
  THEN chatHistory
  ELSE SliceLast(chatHistory, maxMessages)

(***************************************************************************)
(* appStateReducer                                                         *)
(***************************************************************************)
initialState ==
  [chatHistory |-> <<>>, currentCode |-> <<>>, isLoading |-> FALSE, error |-> Null]

\* the reducer with a SET_ERROR case that leaves isLoading alone
appStateReducerKeepingLoading(state, action) ==
  CASE action.type = "ADD_MESSAGE" ->
         [state EXCEPT !.chatHistory = limitChatHistory(Append(@, action.payload)),
                       !.error = Null]
    [] action.type = "CLEAR_HISTORY" ->
         [state EXCEPT !.chatHistory = <<>>, !.error = Null]
    [] action.type = "UPDATE_CODE" ->
         [state EXCEPT !.currentCode = action.payload, !.error = Null]
    [] action.type = "SET_LOADING" ->
         [state EXCEPT !.isLoading = action.payload]
    [] action.type = "SET_ERROR" ->
         [state EXCEPT !.error = action.payload]
    [] action.type = "RESET_STATE" -> initialState
    [] OTHER -> state

\* the reducer with an UPDATE_CODE case that adds the payload to the code
appStateReducerMerging(state, action) ==
  CASE action.type = "ADD_MESSAGE" ->
         [state EXCEPT !.chatHistory = limitChatHistory(Append(@, action.payload)),
                       !.error = Null]
    [] action.type = "CLEAR_HISTORY" ->
         [state EXCEPT !.chatHistory = <<>>, !.error = Null]
    [] action.type = "UPDATE_CODE" ->
         [state EXCEPT !.currentCode = @ \o action.payload, !.error = Null]
    [] action.type = "SET_LOADING" ->
         [state EXCEPT !.isLoading = action.payload]
    [] action.type = "SET_ERROR" ->
         [state EXCEPT !.error = action.payload, !.isLoading = FALSE]
    [] action.type = "RESET_STATE" -> initialState
    [] OTHER -> state

\* the reducer with ADD_MESSAGE, CLEAR_HISTORY and UPDATE_CODE cases that
\* leave error alone
appStateReducerKeepingError(state, action) ==
  CASE action.type = "ADD_MESSAGE" ->
         [state EXCEPT !.chatHistory = limitChatHistory(Append(@, action.payload))]
    [] action.type = "CLEAR_HISTORY" ->
         [state EXCEPT !.chatHistory = <<>>]
    [] action.type = "UPDATE_CODE" ->
         [state EXCEPT !.currentCode = action.payload]
    [] action.type = "SET_LOADING" ->
         [state EXCEPT !.isLoading = action.payload]
    [] action.type = "SET_ERROR" ->
         [state EXCEPT !.error = action.payload, !.isLoading = FALSE]
    [] action.type = "RESET_STATE" -> initialState
    [] OTHER -> state

\* the reducer with an ADD_MESSAGE case that puts the message first
appStateReducerPrepending(state, action) ==
  CASE action.type = "ADD_MESSAGE" ->
         [state EXCEPT !.chatHistory = limitChatHistory(<<action.payload>> \o @),
                       !.error = Null]
    [] action.type = "CLEAR_HISTORY" ->
         [state EXCEPT !.chatHistory = <<>>, !.error = Null]
    [] action.type = "UPDATE_CODE" ->
         [state EXCEPT !.currentCode = action.payload, !.error = Null]
    [] action.type = "SET_LOADING" ->
         [state EXCEPT !.isLoading = action.payload]
    [] action.type = "SET_ERROR" ->
         [state EXCEPT !.error = action.payload, !.isLoading = FALSE]
    [] action.type = "RESET_STATE" -> initialState
    [] OTHER -> state

appStateReducer(state, action) ==
  CASE action.type = "ADD_MESSAGE" ->
         [state EXCEPT !.chatHistory = limitChatHistory(Append(@, action.payload)),
                       !.error = Null]
    [] action.type = "CLEAR_HISTORY" ->
         [state EXCEPT !.chatHistory = <<>>, !.error = Null]
    [] action.type = "UPDATE_CODE" ->
         [state EXCEPT !.currentCode = action.payload, !.error = Null]
    [] action.type = "SET_LOADING" ->
         [state EXCEPT !.isLoading = action.payload]
    [] action.type = "SET_ERROR" ->
         [state EXCEPT !.error = action.payload, !.isLoading = FALSE]
    [] action.type = "RESET_STATE" -> initialState
    [] OTHER -> state

\* a run of dispatch calls made in one synchronous stretch of code
RECURSIVE DispatchAll(_, _)
DispatchAll(state, actions) ==
  IF actions = <<>> THEN state
  ELSE DispatchAll(appStateReducer(state, Head(actions)), Tail(actions))

AddMessageAction(m) == [type |-> "ADD_MESSAGE", payload |-> m]
ClearHistoryAction == [type |-> "CLEAR_HISTORY"]
UpdateCodeAction(code) == [type |-> "UPDATE_CODE", payload |-> code]
SetLoadingAction(b) == [type |-> "SET_LOADING", payload |-> b]
SetErrorAction(e) == [type |-> "SET_ERROR", payload |-> e]
ResetStateAction == [type |-> "RESET_STATE"]

\* clearAllData without its updateCode('')
clearAllDataActionsKeepingCode ==
  <<ClearHistoryAction, SetErrorAction(Null), SetLoadingAction(FALSE)>>

\* the dispatches of clearAllData, in order
clearAllDataActions ==
  <<ClearHistoryAction, UpdateCodeAction(<<>>), SetErrorAction(Null), SetLoadingAction(FALSE)>>

\* the messages dispatched since the history was last emptied, after a run of
\* dispatch calls
RECURSIVE Logged(_, _)
Logged(l, actions) ==
  IF actions = <<>> THEN l
  ELSE LET a == Head(actions)
       IN  Logged(CASE a.type = "ADD_MESSAGE" -> Append(l, a.payload)
                    [] a.type \in {"CLEAR_HISTORY", "RESET_STATE"} -> <<>>
                    [] OTHER -> l,
                  Tail(actions))

(***************************************************************************)
(* AIService (services/aiService.ts)                                       *)
(***************************************************************************)
NoCode == "undefined"

\* an error value: class, .code, .status (0 when absent) and .message
ErrorValue(cls, code, status, message) ==
  [cls |-> cls, code |-> code, status |-> status, message |-> message]

AIServiceError(message, code) == ErrorValue("AIServiceError", code, 0, message)

TimeoutMessage == <<"request", "timed", "out,", "please", "retry">>
NetworkMessage == <<"connection", "failed,", "check", "the", "network">>
AuthMessage == <<"API", "authentication", "failed,", "check", "settings">>
RateLimitMessage == <<"request", "limit", "reached,", "retry", "later">>
GenericApiMessage == <<"AI", "API", "error,", "please", "retry">>
ConfigMessage == <<"API", "key", "is", "not", "configured">>
UnexpectedMessage == <<"unexpected", "error,", "please", "retry">>

\* JavaScript truthiness of an optional string
Truthy(opt) == opt # Null /\ opt[1] # <<>>

\* a || b on optional strings
OrElse(a, b) == IF Truthy(a) THEN a ELSE b

HttpStatusText(status) == <<"HTTP", ToString(status)>>

\* Response.ok
ResponseOk(status) == status \in 200..299

\* the code chosen for a failed response of the /api/ai route
StatusCode(status) ==
  IF status = 401 THEN "AUTH_ERROR"
  ELSE IF status = 429 THEN "RATE_LIMIT"
  ELSE IF status = 402 THEN "QUOTA_EXCEEDED"
  ELSE IF status >= 500 THEN "SERVER_ERROR"
  ELSE "API_ERROR"

\* sendAPIRouteRequest: what the call settles with, given what fetch did.
\* fetched is [kind |-> "reject", error |-> e] or
\* [kind |-> "response", status, parseable, error, content].
sendAPIRouteRequest(fetched) ==
  IF fetched.kind = "reject"
  THEN [ok |-> FALSE, error |-> fetched.error]
  ELSE IF ~ResponseOk(fetched.status)
  THEN LET errorData == IF fetched.parseable THEN fetched.error ELSE Null
           errorMessage == OrElse(errorData, Some(HttpStatusText(fetched.status)))[1]
       IN  [ok |-> FALSE,
            error |-> AIServiceError(errorMessage, StatusCode(fetched.status))]
  ELSE IF ~fetched.parseable
  THEN [ok |-> FALSE,
        error |-> ErrorValue("SyntaxError", NoCode, 0, <<"Unexpected", "token">>)]
  ELSE [ok |-> TRUE, content |-> fetched.content]

\* handleError; development is process.env.NODE_ENV === 'development'
handleError(error, development) ==
  IF error.cls = "AIServiceError" THEN error
  ELSE IF \/ error.code \in {"ENOTFOUND", "ECONNREFUSED"}
          \/ Includes(error.message, <<"network">>)
          \/ Includes(error.message, <<"fetch">>)
  THEN AIServiceError(NetworkMessage, "NETWORK_ERROR")
  ELSE IF \/ error.status = 401
          \/ Includes(error.message, <<"authentication">>)
          \/ Includes(error.message, <<"api", "key">>)
  THEN AIServiceError(AuthMessage, "AUTH_ERROR")
  ELSE IF \/ error.status = 429
          \/ Includes(error.message, <<"rate", "limit">>)
          \/ Includes(error.message, <<"quota">>)
  THEN AIServiceError(RateLimitMessage, "RATE_LIMIT_ERROR")
  ELSE AIServiceError(
         IF development /\ error.message # <<>>
         THEN <<"AI", "API", "error:">> \o error.message
         ELSE GenericApiMessage,
         "API_ERROR")

\* the rejection of the timeout promise of sendRequest
TimeoutError == AIServiceError(TimeoutMessage, "TIMEOUT_ERROR")

\* createAIService without its else branch: OpenAI with whatever key there is
createAIServiceWithoutCheck(env) == [ok |-> TRUE, provider |-> "openai"]

\* createAIService: the provider chosen from the configured keys, or the
\* CONFIG_ERROR it throws.  env holds the optional strings of localStorage,
\* of the window variables and of process.env.
createAIService(env) ==
  LET openaiKey == OrElse(OrElse(env.lsOpenai, env.winOpenai), env.envOpenai)
      geminiKey == OrElse(OrElse(env.lsGemini, env.winGemini), env.envGemini)
      savedProvider == env.lsProvider
  IN  IF \/ savedProvider = Some(<<"openai">>) /\ Truthy(openaiKey)
         \/ savedProvider = Some(<<"gemini">>) /\ Truthy(geminiKey)
      THEN [ok |-> TRUE, provider |-> savedProvider[1][1]]
      ELSE IF Truthy(openaiKey) THEN [ok |-> TRUE, provider |-> "openai"]
      ELSE IF Truthy(geminiKey) THEN [ok |-> TRUE, provider |-> "gemini"]
      ELSE [ok |-> FALSE, error |-> AIServiceError(ConfigMessage, "CONFIG_ERROR")]

\* the message sendPromptAndUpdateCode shows for a caught error
CaughtMessage(error) ==
  IF error.cls = "AIServiceError" THEN error.message
  ELSE IF error.cls \in {"Error", "TypeError", "SyntaxError"} THEN error.message
  ELSE UnexpectedMessage

(***************************************************************************)
(* Inputs                                                                  *)
(***************************************************************************)
\* prompt texts: '', ' ', ' a'
Prompts == {<<>>, <<" ">>, <<" ", "a">>}

\* texts the model returns
Contents == {<<"c">>}

\* texts typed into the editor
Edits == {<<>>, <<"e">>}

\* arguments of a direct setError call
ErrorArgs == {Null, Some(<<"x">>)}

Response(status, parseable, error, content) ==
  [kind |-> "response", status |-> status, parseable |-> parseable,
   error |-> error, content |-> content]

Rejection(error) == [kind |-> "reject", error |-> error]

FailedToFetch == ErrorValue("TypeError", NoCode, 0, <<"Failed", "to", "fetch">>)

\* what fetch('/api/ai') can do in the orchestration model
Fetched ==
  {Response(200, TRUE, Null, c) : c \in Contents}
    \cup {Response(429, TRUE, Some(RateLimitMessage), <<>>),
          Rejection(FailedToFetch)}

NoKeys ==
  [lsOpenai |-> Null, lsGemini |-> Null, lsProvider |-> Null,
   winOpenai |-> Null, winGemini |-> Null, envOpenai |-> Null, envGemini |-> Null]

\* the key configurations read by createAIService
Envs ==
  {NoKeys,
   [NoKeys EXCEPT !.lsOpenai = Some(<<"sk">>)],
   [NoKeys EXCEPT !.lsOpenai = Some(<<>>), !.lsProvider = Some(<<"openai">>)],
   [NoKeys EXCEPT !.envGemini = Some(<<"gk">>), !.lsProvider = Some(<<"openai">>)]}

(***************************************************************************)
(* State                                                                   *)
(***************************************************************************)
\* what the callbacks of a render see of the state
View(state) == [isLoading |-> state.isLoading, chatHistory |-> state.chatHistory]

ChatMessage(id, role, content) == [id |-> id, role |-> role, content |-> content]

\* `${role}-${Date.now()}`: the time of the call is not modelled
MessageId(role) == <<role, "Date.now()">>

\* a message made by a caller of addMessage
TestMessage == ChatMessage(<<"test">>, "assistant", <<"m">>)

\* One call of sendPromptAndUpdateCode that passed its guard: its position,
\* its arguments and closure (prompt, snap = state.chatHistory of its render,
\* both dropped once read for the last time), the promise of fetch, the timer
\* of sendRequest and the promise the call returned.
\* pre is bookkeeping: the store at the call, kept while no other operation
\* has touched the store since.
NewOrch(prompt, alone) ==
  [pc |-> "importing", prompt |-> prompt, snap |-> rendered.chatHistory,
   api |-> "none", timer |-> "none", promise |-> "pending",
   pre |-> IF alone
           THEN Some([chatHistory |-> store.chatHistory,
                      currentCode |-> store.currentCode, prompt |-> prompt])
           ELSE Null]

InFlight(o) == o.pc # "done"

AnyInFlight == \E i \in 1..Len(orchs) : InFlight(orchs[i])

\* another operation ran while these orchestrations were in flight
Disturb(os, except) ==
  [i \in 1..Len(os) |->
     IF i # except /\ InFlight(os[i]) THEN [os[i] EXCEPT !.pre = Null] ELSE os[i]]

\* IntegrationEvent['type'], two of the four
EventTypes == {"CODE_UPDATED", "ERROR_OCCURRED"}

\* new Map(): no event type has an array; 0 stands for no entry
NoListeners == [type \in EventTypes |-> 0]

Init ==
  /\ store = initialState
  /\ rendered = View(initialState)
  /\ orchs = <<>>
  /\ calls = 0
  /\ last = [op |-> "init"]
  /\ log = <<>>
  /\ toasts = <<>>
  /\ comps = <<>>
  /\ listeners = NoListeners
  /\ arrays = <<>>
  /\ subs = <<>>

(***************************************************************************)
(* The callbacks of AppStateProvider, called directly                      *)
(***************************************************************************)
Dispatch(actions, op, arg) ==
  /\ calls' = calls + 1
  /\ store' = DispatchAll(store, actions)
  /\ orchs' = Disturb(orchs, 0)
  /\ last' = [op |-> op, arg |-> arg, pre |-> store]
  /\ log' = Logged(log, actions)
  /\ UNCHANGED <<rendered, toasts, comps, listeners, arrays, subs>>

addMessage(message) ==
  Dispatch(<<AddMessageAction(message)>>, "addMessage", message)

clearHistory ==
  Dispatch(<<ClearHistoryAction>>, "clearHistory", Null)

updateCode(code) ==
  Dispatch(<<UpdateCodeAction(code)>>, "updateCode", code)

setLoading(loading) ==
  Dispatch(<<SetLoadingAction(loading)>>, "setLoading", loading)

setError(error) ==
  Dispatch(<<SetErrorAction(error)>>, "setError", error)

resetState ==
  Dispatch(<<ResetStateAction>>, "resetState", Null)

clearAllData ==
  Dispatch(clearAllDataActions, "clearAllData", Null)

\* React re-renders the provider: the callbacks see the current state
Render ==
  /\ rendered # View(store)
  /\ rendered' = View(store)
  /\ last' = [op |-> "render"]
  /\ UNCHANGED <<store, orchs, calls, log, toasts, comps, listeners, arrays, subs>>

(***************************************************************************)
(* sendPromptAndUpdateCode                                                 *)
(***************************************************************************)
\* the guard without its trim
DeclinedUntrimmed(prompt) == prompt = <<>> \/ rendered.isLoading

\* the guard of sendPromptAndUpdateCode, read from the render's state
Declined(prompt) == Trim(prompt) = <<>> \/ rendered.isLoading

\* the two calls the other way round
StartingLoadingFirst(state) ==
  DispatchAll(state, <<SetLoadingAction(TRUE), SetErrorAction(Null)>>)

\* setError(null); setLoading(true)
Starting(state) ==
  DispatchAll(state, <<SetErrorAction(Null), SetLoadingAction(TRUE)>>)

\* the call itself, up to its first await
Start(prompt, op, arg) ==
  IF Declined(prompt)
  THEN /\ last' = [op |-> op, arg |-> arg, accepted |-> FALSE]
       /\ UNCHANGED <<store, rendered, orchs, calls, log, toasts, comps, listeners, arrays, subs>>
  ELSE /\ Len(orchs) < MaxSubmits
       /\ store' = Starting(store)
       /\ orchs' = Append(Disturb(orchs, 0), NewOrch(prompt, ~AnyInFlight))
       /\ last' = [op |-> op, arg |-> arg, accepted |-> TRUE]
       /\ UNCHANGED <<rendered, calls, log, toasts, comps, listeners, arrays, subs>>

sendPromptAndUpdateCode(prompt) == Start(prompt, "sendPromptAndUpdateCode", prompt)

\* the catch block without its setError
FailingSilently(state, error) ==
  DispatchAll(state, <<SetLoadingAction(FALSE)>>)

\* the catch and finally blocks
Failing(state, error) ==
  DispatchAll(state, <<SetErrorAction(Some(CaughtMessage(error))), SetLoadingAction(FALSE)>>)

\* the call starting over after a failure
FinishRetrying(o, threw) ==
  IF threw /\ o.api # "none"
  THEN [o EXCEPT !.pc = "importing", !.timer = "none"]
  ELSE [o EXCEPT !.pc = "done", !.promise = "resolved"]

\* the call without its catch block
FinishRethrowing(o, threw) ==
  [o EXCEPT !.pc = "done", !.promise = IF threw THEN "rejected" ELSE "resolved"]

\* The call returns: whatever was thrown inside the try block was caught, so
\* the promise the call returned resolves.
Finish(o, threw) == [o EXCEPT !.pc = "done", !.promise = "resolved"]

\* sendRequest awaiting fetch alone: the timeout is not looked at
TimedOutIgnored(o) == FALSE

\* sendRequest awaiting fetch alone: the timeout settles nothing
AnsweredAlways(o) == TRUE

\* Promise.race in sendRequest: the timeout settled the race before fetch did
TimedOut(o) == o.timer = "fired"

\* Promise.race in sendRequest: fetch settled the race before the timeout did
Answered(o) == o.api = "settled"

\* what a step of an orchestration did, for the record in last
Step(op, i, outcome, code, content) ==
  [op |-> op, arg |-> i, outcome |-> outcome, code |-> code, content |-> content]

\* after the dynamic imports: the user message, the service, the request
\* (contextMessages are the messages of the request, taken from the render's
\* history; last keeps them for the step that sends them)
Continue(i, env) ==
  /\ orchs[i].pc = "importing"
  /\ LET o == [orchs[i] EXCEPT !.prompt = <<>>, !.snap = <<>>]
         userMessage == ChatMessage(MessageId("user"), "user", orchs[i].prompt)
         appended == appStateReducer(store, AddMessageAction(userMessage))
         service == createAIService(env)
         contextMessages ==
           SliceLast(Append(orchs[i].snap, userMessage), contextLimit * 2)
     IN  IF service.ok
         THEN /\ store' = appended
              /\ orchs' = [Disturb(orchs, i) EXCEPT ![i] =
                   [o EXCEPT !.pc = "awaiting", !.api = "pending", !.timer = "pending"]]
              /\ last' = Step("continue", i, "invoked", "none", Null)
                          @@ [context |-> contextMessages]
         ELSE /\ store' = Failing(appended, service.error)
              /\ orchs' = [Disturb(orchs, i) EXCEPT ![i] = Finish(o, TRUE)]
              /\ last' = Step("continue", i, "failed", service.error.code, Null)
  /\ log' = Logged(log, <<AddMessageAction(ChatMessage(MessageId("user"), "user", orchs[i].prompt))>>)
  /\ UNCHANGED <<rendered, calls, toasts, comps, listeners, arrays, subs>>

\* fetch settles; sendRequest's race is decided by it unless the timeout won
ApiSettle(i, fetched, development) ==
  /\ orchs[i].api = "pending"
  /\ LET o == orchs[i]
         result == sendAPIRouteRequest(fetched)
         settled == [o EXCEPT !.api = "settled"]
     IN  IF TimedOut(o)
         THEN /\ orchs' = [orchs EXCEPT ![i] = settled]
              /\ last' = Step("apiSettle", i, "late", "none",
                              IF result.ok THEN Some(result.content) ELSE Null)
              /\ UNCHANGED <<store, log>>
         ELSE IF result.ok
         THEN LET assistantMessage ==
                    ChatMessage(MessageId("assistant"), "assistant", result.content)
              IN  /\ store' = DispatchAll(store,
                        <<AddMessageAction(assistantMessage),
                          UpdateCodeAction(result.content),
                          SetLoadingAction(FALSE)>>)
                  /\ orchs' = [Disturb(orchs, i) EXCEPT ![i] = Finish(settled, FALSE)]
                  /\ log' = Logged(log, <<AddMessageAction(assistantMessage)>>)
                  /\ last' = Step("apiSettle", i, "applied", "none", Some(result.content))
                              @@ [before |-> store.currentCode]
         ELSE LET error == handleError(result.error, development)
              IN  /\ store' = Failing(store, error)
                  /\ orchs' = [Disturb(orchs, i) EXCEPT ![i] = Finish(settled, TRUE)]
                  /\ last' = Step("apiSettle", i, "failed", error.code, Null)
                  /\ UNCHANGED log
  /\ UNCHANGED <<rendered, calls, toasts, comps, listeners, arrays, subs>>

\* the setTimeout callback of sendRequest runs
TimerFire(i) ==
  /\ orchs[i].timer = "pending"
  /\ LET o == orchs[i]
         fired == [o EXCEPT !.timer = "fired"]
     IN  IF Answered(o)
         THEN /\ orchs' = [orchs EXCEPT ![i] = fired]
              /\ last' = Step("timerFire", i, "late", "none", Null)
              /\ UNCHANGED store
         ELSE LET error == handleError(TimeoutError, FALSE)
              IN  /\ store' = Failing(store, error)
                  /\ orchs' = [Disturb(orchs, i) EXCEPT ![i] = Finish(fired, TRUE)]
                  /\ last' = Step("timerFire", i, "failed", error.code, Null)
  /\ UNCHANGED <<rendered, calls, log, toasts, comps, listeners, arrays, subs>>

\* a direct call of one of the store's callbacks
Call ==
  \/ addMessage(TestMessage)
  \/ clearHistory
  \/ \E code \in Edits : updateCode(code)
  \/ \E loading \in BOOLEAN : setLoading(loading)
  \/ \E error \in ErrorArgs : setError(error)
  \/ resetState
  \/ clearAllData

Submit == \E prompt \in Prompts : sendPromptAndUpdateCode(prompt)

\* the steps of the orchestrations in flight
Orchestrate ==
  \/ \E i \in 1..Len(orchs), env \in Envs : Continue(i, env)
  \/ \E i \in 1..Len(orchs), fetched \in Fetched, development \in BOOLEAN :
       ApiSettle(i, fetched, development)
  \/ \E i \in 1..Len(orchs) : TimerFire(i)

\* Any caller: callbacks may be called again before React has re-rendered.
Next ==
  \/ calls < MaxCalls /\ Call
  \/ Submit
  \/ Render
  \/ Orchestrate

Spec == Init /\ [][Next]_vars

\* The rendered UI as caller: every call is made from a handler of the
\* current render.
Rendered == rendered = View(store)

UINext ==
  \/ Rendered /\ calls < MaxUICalls /\ Call
  \/ Rendered /\ Submit
  \/ Render
  \/ Orchestrate

SpecUI == Init /\ [][UINext]_vars

\* The orchestration's own steps are taken: the imports resolve and the
\* timer of sendRequest fires.  Nothing makes fetch settle.
Fairness ==
  \A i \in 1..MaxSubmits :
    /\ WF_vars(i <= Len(orchs) /\ \E env \in Envs : Continue(i, env))
    /\ WF_vars(i <= Len(orchs) /\ TimerFire(i))

LiveSpec == Init /\ [][Next]_vars /\ Fairness

(***************************************************************************)
(* The store on its own: the callbacks called one after the other, every   *)
(* addMessage with a message of its own.                                   *)
(***************************************************************************)
\* the k-th message of a caller: ids m0, m1, ...
Turn(k) ==
  ChatMessage(<<"m", k>>, IF k % 2 = 0 THEN "user" ELSE "assistant", <<"t">>)

StoreCall ==
  \/ addMessage(Turn(calls))
  \/ clearHistory
  \/ \E code \in Edits : updateCode(code)
  \/ \E loading \in BOOLEAN : setLoading(loading)
  \/ \E error \in ErrorArgs : setError(error)
  \/ resetState
  \/ clearAllData

StoreNext == calls < MaxStoreCalls /\ StoreCall

StoreSpec == Init /\ [][StoreNext]_vars

(***************************************************************************)
(* limitChatHistory and validateChatHistoryLimit on their own: last holds  *)
(* the argument and the result of the call.                                *)
(***************************************************************************)
Histories ==
  UNION {[1..n -> {Turn(k) : k \in 0..(MaxSamples - 1)}] : n \in 0..MaxLen}

LimitInit ==
  /\ store = initialState
  /\ rendered = View(initialState)
  /\ orchs = <<>>
  /\ calls = 0
  /\ log = <<>>
  /\ toasts = <<>>
  /\ comps = <<>>
  /\ listeners = NoListeners
  /\ arrays = <<>>
  /\ subs = <<>>
  /\ last \in {[op |-> "input", arg |-> h] : h \in Histories}

\* limitChatHistory(h) on an input
ApplyLimit ==
  /\ last.op = "input"
  /\ last' = [op |-> "limitChatHistory", arg |-> last.arg,
               result |-> limitChatHistory(last.arg)]
  /\ UNCHANGED <<store, rendered, orchs, calls, log, toasts, comps, listeners, arrays, subs>>

\* validateChatHistoryLimit(h) on an input or on the result of limitChatHistory
ApplyValidate ==
  /\ last.op \in {"input", "limitChatHistory"}
  /\ LET h == IF last.op = "input" THEN last.arg ELSE last.result
     IN  last' = [op |-> "validateChatHistoryLimit", arg |-> h,
                  result |-> validateChatHistoryLimit(h),
                  limited |-> last.op = "limitChatHistory", input |-> last.arg]
  /\ UNCHANGED <<store, rendered, orchs, calls, log, toasts, comps, listeners, arrays, subs>>

LimitNext == ApplyLimit \/ ApplyValidate

LimitSpec == LimitInit /\ [][LimitNext]_vars

(***************************************************************************)
(* useToast (hooks/useToast.ts) and ToastNotification / ToastContainer     *)
(* (components/ToastNotification.tsx)                                      *)
(***************************************************************************)
\* the options of a call; a field left out is "undefined", 0 for a duration
Options(autoClose, duration) == [autoClose |-> autoClose, duration |-> duration]

NoOptions == Options("undefined", 0)

ToastOptions == {NoOptions, Options("false", 0), Options("undefined", 1000)}

ToastTypes == {"error", "success", "warning", "info"}

Toast(id, type, options) ==
  [id |-> id, type |-> type, autoClose |-> options.autoClose,
   duration |-> options.duration]

\* The ToastNotification of a toast, before the container has rendered it:
\* whether it is mounted, its auto-close timer and the delay it was started
\* with, the pending timers of handleClose and the clicks on its button.
\* Bookkeeping: the call that added the toast and the options given to it,
\* the runs of the handleClose timer, whether removeToast was called with its
\* id and whether clearToasts was called while it was listed.
NewComp(op, given) ==
  [mounted |-> "no", auto |-> "none", delay |-> 0, exits |-> 0, clicks |-> 0,
   op |-> op, given |-> given, closes |-> 0, removed |-> FALSE, cleared |-> FALSE]

\* setToasts(prev => [...prev, newToast]) with a fresh id
Push(op, type, options, given) ==
  /\ LET id == Len(comps) + 1
     IN  /\ toasts' = Append(toasts, Toast(id, type, options))
         /\ comps' = Append(comps, NewComp(op, given))
         /\ last' = [op |-> op, id |-> id]
  /\ UNCHANGED <<store, rendered, orchs, calls, log, listeners, arrays, subs>>

addToast(type, options) == Push("addToast", type, options, options)

\* {autoClose: options?.autoClose !== false, duration: options?.duration || d,
\*  ...options}
Spread(options, d) ==
  Options(IF options.autoClose = "false" THEN "false" ELSE "true",
          IF options.duration # 0 THEN options.duration ELSE d)

showError(options) == Push("showError", "error", Spread(options, 5000), options)

showSuccess(options) == Push("showSuccess", "success", Spread(options, 3000), options)

showWarning(options) == Push("showWarning", "warning", Spread(options, 4000), options)

showInfo(options) == Push("showInfo", "info", Spread(options, 3000), options)

\* removeToast swapping the toasts it keeps around the one it drops
WithoutRotating(ts, id) ==
  IF \E k \in 1..Len(ts) : ts[k].id = id
  THEN LET k == CHOOSE j \in 1..Len(ts) : ts[j].id = id
       IN  SubSeq(ts, k + 1, Len(ts)) \o SubSeq(ts, 1, k - 1)
  ELSE ts

\* prev.filter(toast => toast.id !== id)
Without(ts, id) == SelectSeq(ts, LAMBDA t : t.id # id)

Listed(id) == \E k \in 1..Len(toasts) : toasts[k].id = id

ToastOf(id) == toasts[CHOOSE k \in 1..Len(toasts) : toasts[k].id = id]

\* toast.duration || (toast.type === 'error' ? 5000 : 3000)
Duration(toast) ==
  IF toast.duration # 0 THEN toast.duration
  ELSE IF toast.type = "error" THEN 5000 ELSE 3000

\* the auto-close effect without its test of toast.autoClose
MountAlwaysTimed(c, toast) ==
  [c EXCEPT !.mounted = "yes", !.auto = "pending", !.delay = Duration(toast)]

\* the auto-close effect of a component that mounts
Mount(c, toast) ==
  IF toast.autoClose # "false"
  THEN [c EXCEPT !.mounted = "yes", !.auto = "pending", !.delay = Duration(toast)]
  ELSE [c EXCEPT !.mounted = "yes"]

\* the cleanup of the auto-close effect: clearTimeout(timer)
Unmount(c) ==
  [c EXCEPT !.mounted = "gone", !.auto = IF @ = "pending" THEN "cleared" ELSE @]

\* handleClose that only sets isExiting
handleCloseExitingOnly(c) == c

\* handleClose: setTimeout(() => onClose(toast.id), 300)
handleClose(c) == [c EXCEPT !.exits = @ + 1]

\* ToastContainer renders toasts.map(...): new toasts mount, removed ones unmount
ToastRender ==
  /\ comps' = [id \in 1..Len(comps) |->
       IF comps[id].mounted = "no" /\ Listed(id) THEN Mount(comps[id], ToastOf(id))
       ELSE IF comps[id].mounted = "yes" /\ ~Listed(id) THEN Unmount(comps[id])
       ELSE comps[id]]
  /\ comps' # comps
  /\ last' = [op |-> "toastRender"]
  /\ UNCHANGED <<store, rendered, orchs, calls, log, toasts, listeners, arrays, subs>>

\* the auto-close timer runs handleClose
AutoClose(id) ==
  /\ comps[id].auto = "pending"
  /\ comps' = [comps EXCEPT ![id] = handleClose([@ EXCEPT !.auto = "fired"])]
  /\ last' = [op |-> "autoClose", id |-> id]
  /\ UNCHANGED <<store, rendered, orchs, calls, log, toasts, listeners, arrays, subs>>

\* the close button runs handleClose
ClickClose(id) ==
  /\ comps[id].mounted = "yes"
  /\ comps[id].clicks < MaxClicks
  /\ comps' = [comps EXCEPT ![id] = handleClose([@ EXCEPT !.clicks = @ + 1])]
  /\ last' = [op |-> "clickClose", id |-> id]
  /\ UNCHANGED <<store, rendered, orchs, calls, log, toasts, listeners, arrays, subs>>

\* a timer of handleClose runs onClose(toast.id), which is removeToast
ExitClose(id) ==
  /\ comps[id].exits > 0
  /\ toasts' = Without(toasts, id)
  /\ comps' = [comps EXCEPT ![id] =
       [@ EXCEPT !.exits = @ - 1, !.closes = @ + 1, !.removed = TRUE]]
  /\ last' = [op |-> "exitClose", id |-> id]
  /\ UNCHANGED <<store, rendered, orchs, calls, log, listeners, arrays, subs>>

\* removeToast called by a user of the hook
removeToast(id) ==
  /\ calls' = calls + 1
  /\ toasts' = Without(toasts, id)
  /\ comps' = [k \in 1..Len(comps) |->
       IF k = id THEN [comps[k] EXCEPT !.removed = TRUE] ELSE comps[k]]
  /\ last' = [op |-> "removeToast", id |-> id]
  /\ UNCHANGED <<store, rendered, orchs, log, listeners, arrays, subs>>

clearToasts ==
  /\ calls' = calls + 1
  /\ toasts' = <<>>
  /\ comps' = [k \in 1..Len(comps) |->
       IF Listed(k) THEN [comps[k] EXCEPT !.cleared = TRUE] ELSE comps[k]]
  /\ last' = [op |-> "clearToasts"]
  /\ UNCHANGED <<store, rendered, orchs, log, listeners, arrays, subs>>

ToastPush ==
  \E options \in ToastOptions :
    \/ \E type \in ToastTypes : addToast(type, options)
    \/ showError(options)
    \/ showSuccess(options)
    \/ showWarning(options)
    \/ showInfo(options)

ToastTimers ==
  \E id \in 1..Len(comps) : AutoClose(id) \/ ExitClose(id)

\* a user of the hook removes a toast, listed or not, or all of them
ToastCall ==
  \/ \E id \in 1..(Len(comps) + 1) : removeToast(id)
  \/ clearToasts

ToastNext ==
  \/ Len(comps) < MaxToasts /\ ToastPush
  \/ ToastRender
  \/ ToastTimers
  \/ \E id \in 1..Len(comps) : ClickClose(id)
  \/ calls < MaxToastCalls /\ ToastCall

ToastSpec == Init /\ [][ToastNext]_vars

\* React renders the container after setToasts, and the timers that were
\* started run.  Nobody has to click or call anything.
ToastFairness ==
  /\ WF_vars(ToastRender)
  /\ \A id \in 1..MaxToasts :
       /\ WF_vars(id <= Len(comps) /\ AutoClose(id))
       /\ WF_vars(id <= Len(comps) /\ ExitClose(id))

ToastLiveNext ==
  \/ Len(comps) < MaxToasts /\ ToastPush
  \/ ToastRender
  \/ ToastTimers
  \/ \E id \in 1..Len(comps) : ClickClose(id)
  \/ calls < MaxLiveCalls /\ ToastCall

LiveToastSpec == Init /\ [][ToastLiveNext]_vars /\ ToastFairness

\* The list of useToast on its own: toasts added and removed by callers
\* before the container renders.
ListNext ==
  \/ Len(comps) < MaxListed /\ ToastPush
  \/ calls < MaxListCalls /\ ToastCall

ListSpec == Init /\ [][ListNext]_vars

(***************************************************************************)
(* IntegrationEventBus (utils/integration.ts)                              *)
(***************************************************************************)
\* The callback functions given to subscribe: one that returns, one that
\* throws, and one that calls the unsubscribe function it was last given
\* (unsubscribe = bus.subscribe(type, once)).
Callbacks == {"plain", "throwing", "once"}

\* this.listeners.get(eventType), as a sequence
Registered(type) == IF listeners[type] = 0 THEN <<>> ELSE arrays[listeners[type]]

\* callbacks.indexOf(callback), 0 for -1
IndexOf(callbacks, callback) ==
  IF \E k \in 1..Len(callbacks) : callbacks[k] = callback
  THEN CHOOSE k \in 1..Len(callbacks) :
         /\ callbacks[k] = callback
         /\ \A j \in 1..(k - 1) : callbacks[j] # callback
  ELSE 0

\* callbacks.splice(index, 1)
Splice(callbacks, index) ==
  SubSeq(callbacks, 1, index - 1) \o SubSeq(callbacks, index + 1, Len(callbacks))

\* The function subscribe returned, called: the array and the callback are
\* the ones of its closure.  called is bookkeeping.
Unsubscribed(state, r) ==
  LET sub == state.subs[r]
      callbacks == state.arrays[sub.array]
      index == IndexOf(callbacks, sub.callback)
  IN  [state EXCEPT
         !.arrays[sub.array] =
            IF index > 0 THEN Splice(callbacks, index) ELSE callbacks,
         !.subs[r].called = 1]

\* the unsubscribe function a callback was last given
LatestSub(ss, callback) ==
  CHOOSE r \in 1..Len(ss) :
    /\ ss[r].callback = callback
    /\ \A q \in (r + 1)..Len(ss) : ss[q].callback # callback

\* callback(event): what the callback does to the bus, and whether it throws
Invoke(callback, state) ==
  IF callback = "once"
  THEN [Unsubscribed(state, LatestSub(state.subs, callback)) EXCEPT !.threw = FALSE]
  ELSE [state EXCEPT !.threw = (callback = "throwing")]

\* the callback called without try / catch
tryCallbackUncaught(callback, state) == Invoke(callback, state)

\* try { callback(event) } catch (error) { console.error(...) }
tryCallback(callback, state) == [Invoke(callback, state) EXCEPT !.threw = FALSE]

\* callbacks.forEach(callback => ...): the indices below the length the array
\* had at the start, in order, each looked up when its turn comes; an index
\* the array no longer has is passed over, an exception ends the loop.
RECURSIVE forEach(_, _, _, _)
forEach(k, len, ref, state) ==
  IF k > len \/ state.threw THEN state
  ELSE IF k > Len(state.arrays[ref]) THEN forEach(k + 1, len, ref, state)
  ELSE LET callback == state.arrays[ref][k]
           after == tryCallback(callback, state)
       IN  forEach(k + 1, len, ref,
                   [after EXCEPT !.invoked = Append(state.invoked, callback)])

\* subscribe(eventType, callback); the closure it returns is kept in subs
subscribe(eventType, callback) ==
  /\ LET fresh == listeners[eventType] = 0
         ref == IF fresh THEN Len(arrays) + 1 ELSE listeners[eventType]
         had == IF fresh THEN Append(arrays, <<>>) ELSE arrays
     IN  /\ listeners' = [listeners EXCEPT ![eventType] = ref]
         /\ arrays' = [had EXCEPT ![ref] = Append(@, callback)]
         /\ subs' = Append(subs, [type |-> eventType, callback |-> callback,
                                  array |-> ref, called |-> 0])
  /\ last' = [op |-> "subscribe", sub |-> Len(subs) + 1]
  /\ UNCHANGED <<store, rendered, orchs, calls, log, toasts, comps>>

\* a call of the function that the r-th subscribe returned
unsubscribe(r) ==
  /\ LET after == Unsubscribed([arrays |-> arrays, subs |-> subs], r)
     IN  /\ arrays' = after.arrays
         /\ subs' = after.subs
  /\ calls' = calls + 1
  /\ last' = [op |-> "unsubscribe", sub |-> r, again |-> subs[r].called > 0]
  /\ UNCHANGED <<store, rendered, orchs, log, toasts, comps, listeners>>

\* emit(event) for an event of the type
emit(type) ==
  /\ LET ref == listeners[type]
         start == [arrays |-> arrays, subs |-> subs, invoked |-> <<>>, threw |-> FALSE]
         after == IF ref = 0 THEN start
                  ELSE forEach(1, Len(arrays[ref]), ref, start)
     IN  /\ arrays' = after.arrays
         /\ subs' = after.subs
         /\ last' = [op |-> "emit", type |-> type, before |-> Registered(type),
                     invoked |-> after.invoked, threw |-> after.threw]
  /\ calls' = calls + 1
  /\ UNCHANGED <<store, rendered, orchs, log, toasts, comps, listeners>>

\* clear(): this.listeners.clear()
clear ==
  /\ listeners' = NoListeners
  /\ calls' = calls + 1
  /\ last' = [op |-> "clear"]
  /\ UNCHANGED <<store, rendered, orchs, log, toasts, comps, arrays, subs>>

BusNext ==
  \/ /\ Len(subs) < MaxSubs
     /\ \E eventType \in EventTypes, callback \in Callbacks : subscribe(eventType, callback)
  \/ calls < MaxBusCalls /\ \E r \in 1..Len(subs) : unsubscribe(r)
  \/ calls < MaxBusCalls /\ \E type \in EventTypes : emit(type)
  \/ calls < MaxBusCalls /\ clear

BusSpec == Init /\ [][BusNext]_vars

(***************************************************************************)
(* Claims                                                                  *)
(***************************************************************************)
OrchStep(l) == l.op \in {"continue", "apiSettle", "timerFire"}

InFlightSet == {i \in 1..Len(orchs) : InFlight(orchs[i])}

\* the turns of a history without their ids
Turns(h) == [k \in 1..Len(h) |-> <<h[k].role, h[k].content>>]

\* C1: the history never holds more than 2 * contextLimit = 6 messages,
\* whatever callbacks were called and whatever the orchestrations did.
C1_HistoryBound == Len(store.chatHistory) <= 2 * contextLimit

\* C1 witness: addMessage was called on a full history.
C1_Witness ==
  /\ last.op = "addMessage"
  /\ Len(rendered.chatHistory) = 2 * contextLimit
  /\ Len(store.chatHistory) = 2 * contextLimit

\* C2: at most one orchestration is in flight at any time.
C2_AtMostOneInFlight == Cardinality(InFlightSet) <= 1

\* C3: a call of sendPromptAndUpdateCode while the store's isLoading is true
\* changes nothing and starts no orchestration.
C3_BusySubmitIsNoOp ==
  [][(last'.op = "sendPromptAndUpdateCode" /\ store.isLoading)
       => (store' = store /\ orchs' = orchs)]_vars

\* C4: a call of sendPromptAndUpdateCode with a prompt that is empty after
\* trimming changes nothing: no error is set, isLoading is not raised and no
\* orchestration starts.
C4_EmptySubmitIsNoOp ==
  [][(last'.op = "sendPromptAndUpdateCode" /\ Trim(last'.arg) = <<>>)
       => (store' = store /\ orchs' = orchs /\ ~last'.accepted)]_vars

\* C4 witness: a whitespace-only prompt was declined while nothing was loading.
C4_Witness ==
  /\ last.op = "sendPromptAndUpdateCode"
  /\ last.arg = <<" ">>
  /\ ~last.accepted
  /\ ~rendered.isLoading
  /\ ~store.isLoading

\* C5: when an orchestration that started from an idle store with history h
\* applies the answer c and no other operation touched the store meanwhile,
\* the store is {limit(h ++ [user: p, assistant: c]), c, false, null}.
C5_HappyPath ==
  (last.op = "apiSettle" /\ last.outcome = "applied" /\ orchs[last.arg].pre # Null)
    => LET pre == orchs[last.arg].pre[1]
           c == last.content[1]
       IN  /\ Turns(store.chatHistory) =
                SliceLast(Turns(pre.chatHistory)
                            \o << <<"user", pre.prompt>>, <<"assistant", c>> >>,
                          2 * contextLimit)
           /\ store.currentCode = c
           /\ store.isLoading = FALSE
           /\ store.error = Null

\* C5 witness: an answer was applied by an undisturbed orchestration that
\* started with five messages in the history.
C5_Witness ==
  /\ last.op = "apiSettle"
  /\ last.outcome = "applied"
  /\ orchs[last.arg].pre # Null
  /\ Len(orchs[last.arg].pre[1].chatHistory) = 2 * contextLimit - 1

\* C6: when the model call of an orchestration fails, by rejection or by
\* timeout, and no other operation touched the store meanwhile, the history
\* is the old one plus the user turn, the code is unchanged, isLoading is
\* false and error is not null.
C6_FailurePath ==
  (/\ last.op \in {"apiSettle", "timerFire"}
   /\ last.outcome = "failed"
   /\ orchs[last.arg].pre # Null)
    => LET pre == orchs[last.arg].pre[1]
       IN  /\ Turns(store.chatHistory) =
                SliceLast(Turns(pre.chatHistory) \o << <<"user", pre.prompt>> >>,
                          2 * contextLimit)
           /\ store.currentCode = pre.currentCode
           /\ store.isLoading = FALSE
           /\ store.error # Null

\* C6 witness: an undisturbed orchestration timed out over an edited document.
C6_Witness ==
  /\ last.op = "timerFire"
  /\ last.outcome = "failed"
  /\ orchs[last.arg].pre # Null
  /\ orchs[last.arg].pre[1].currentCode # <<>>

\* C7: the first of the timeout and the model call to settle decides: a
\* timeout that fires first fails the orchestration with TIMEOUT_ERROR and the
\* answer arriving later leaves the store alone; a timeout firing after the
\* call settled leaves the store alone.
C7_TimeoutRace ==
  [][/\ (last'.op = "timerFire" /\ orchs[last'.arg].api = "pending")
          => /\ last'.outcome = "failed"
             /\ last'.code = "TIMEOUT_ERROR"
             /\ store'.error = Some(TimeoutMessage)
             /\ orchs'[last'.arg].pc = "done"
     /\ (last'.op = "apiSettle" /\ orchs[last'.arg].timer = "fired")
          => store' = store
     /\ (last'.op = "timerFire" /\ orchs[last'.arg].api = "settled")
          => store' = store]_vars

\* C7 witness: an answer with content arrived after the timeout and was dropped.
C7_Witness ==
  /\ last.op = "apiSettle"
  /\ last.outcome = "late"
  /\ last.content # Null

\* C8: every orchestration in flight completes, and a state with isLoading
\* false and no orchestration in flight is reached.
C8_ReturnsToIdle ==
  /\ \A i \in 1..MaxSubmits :
       (i <= Len(orchs) /\ InFlight(orchs[i]))
         ~> (i <= Len(orchs) /\ ~InFlight(orchs[i]))
  /\ (InFlightSet # {}) ~> (InFlightSet = {} /\ ~store.isLoading)

\* C8 witness: an orchestration whose fetch never settled completed.
C8_Witness ==
  /\ last.op = "timerFire"
  /\ last.outcome = "failed"
  /\ InFlightSet = {}
  /\ ~store.isLoading

ErrorKinds ==
  {"NETWORK_ERROR", "AUTH_ERROR", "RATE_LIMIT_ERROR", "QUOTA_EXCEEDED",
   "TIMEOUT_ERROR", "INVALID_RESPONSE", "CONFIG_ERROR", "API_ERROR"}

\* C9: every failure of an orchestration carries a code of the closed set.
C9_ErrorKindsClosed ==
  (OrchStep(last) /\ last.outcome = "failed") => last.code \in ErrorKinds

\* C10: the promise returned by sendPromptAndUpdateCode never rejects and is
\* resolved once the call is done, whether the model call answered, was
\* rejected, timed out or had no key; a failure leaves its message in error.
C10_NeverThrows ==
  /\ \A i \in 1..Len(orchs) :
       /\ orchs[i].promise # "rejected"
       /\ orchs[i].pc = "done" => orchs[i].promise = "resolved"
  /\ (OrchStep(last) /\ last.outcome = "failed") => store.error # Null

\* C10 witness: a call whose service could not be created has resolved.
C10_Witness ==
  /\ last.op = "continue"
  /\ last.outcome = "failed"
  /\ last.code = "CONFIG_ERROR"
  /\ orchs[last.arg].promise = "resolved"
  /\ store.error = Some(ConfigMessage)

\* C11: setError(msg) with a non-null msg leaves error = msg and isLoading
\* false, whatever isLoading was, and leaves chatHistory and currentCode alone.
C11_SetErrorStopsLoading ==
  [][(last'.op = "setError" /\ last'.arg # Null)
       => store' = [store EXCEPT !.error = last'.arg, !.isLoading = FALSE]]_vars

\* C11 witness: setError(msg) was called while isLoading was true, over a
\* history and a document that are not empty.
C11_Witness ==
  /\ last.op = "setError"
  /\ last.arg # Null
  /\ last.pre.isLoading
  /\ last.pre.chatHistory # <<>>
  /\ last.pre.currentCode # <<>>
  /\ store.error = last.arg
  /\ ~store.isLoading

\* C12: setError(null) sets error to null and leaves isLoading, chatHistory
\* and currentCode as they were, also while an orchestration is in flight.
C12_SetErrorNullKeepsLoading ==
  [][(last'.op = "setError" /\ last'.arg = Null)
       => store' = [store EXCEPT !.error = Null]]_vars

\* C13: every step that takes isLoading from false to true, a setLoading(true)
\* as well as the start of an accepted sendPromptAndUpdateCode, leaves error
\* null.
C13_LoadingClearsError ==
  [][(~store.isLoading /\ store'.isLoading) => store'.error = Null]_vars

\* C14: after updateCode(x), currentCode is x and error is null, for every
\* text x, the empty one included; chatHistory and isLoading are unchanged.
C14_UpdateCodeFrame ==
  [][last'.op = "updateCode"
       => store' = [store EXCEPT !.currentCode = last'.arg, !.error = Null]]_vars

\* C14 witness: updateCode('') was called over a document, an error, a
\* history and isLoading true.
C14_Witness ==
  /\ last.op = "updateCode"
  /\ last.arg = <<>>
  /\ last.pre.currentCode # <<>>
  /\ last.pre.error # Null
  /\ last.pre.isLoading
  /\ last.pre.chatHistory # <<>>
  /\ store.currentCode = <<>>
  /\ store.error = Null

\* C15: addMessage(turn) leaves error null and does not touch isLoading or
\* currentCode, from any state.
C15_AddMessageFrame ==
  [][last'.op = "addMessage"
       => /\ store'.error = Null
          /\ store'.isLoading = store.isLoading
          /\ store'.currentCode = store.currentCode]_vars

\* C15 witness: addMessage was called while an error was set, isLoading was
\* true and the document was not empty.
C15_Witness ==
  /\ last.op = "addMessage"
  /\ last.pre.error # Null
  /\ last.pre.isLoading
  /\ last.pre.currentCode # <<>>
  /\ store.error = Null
  /\ store.isLoading

\* C16: addMessage(turn) on a history h of at most 5 messages yields h with
\* turn at its end; on a history of 6 it drops the oldest message and keeps
\* the other five in order, followed by turn.
C16_AddMessageHistory ==
  [][last'.op = "addMessage"
       => LET h == store.chatHistory
          IN  store'.chatHistory =
                IF Len(h) <= 2 * contextLimit - 1
                THEN h \o <<last'.arg>>
                ELSE Tail(h) \o <<last'.arg>>]_vars

\* C16 witness: addMessage was called on a history of 6 messages and the
\* oldest one is gone.
C16_Witness ==
  /\ last.op = "addMessage"
  /\ Len(last.pre.chatHistory) = 2 * contextLimit
  /\ store.chatHistory = Tail(last.pre.chatHistory) \o <<last.arg>>
  /\ store.chatHistory[1] # last.pre.chatHistory[1]

\* C17: the history is, in the order of the calls, the last min(k, 6) of the
\* k messages added since the history was last emptied by clearHistory or
\* resetState.
C17_HistoryIsLastSix ==
  LET k == Len(log)
      n == IF k <= 2 * contextLimit THEN k ELSE 2 * contextLimit
  IN  /\ Len(store.chatHistory) = n
      /\ \A j \in 1..n : store.chatHistory[j] = log[k - n + j]

\* C17 witness: eight calls of addMessage with ids m0..m7 left m2..m7.
C17_Witness ==
  /\ Len(log) = 8
  /\ \A j \in 1..8 : log[j].id = <<"m", j - 1>>
  /\ Len(store.chatHistory) = 6
  /\ \A j \in 1..6 : store.chatHistory[j].id = <<"m", j + 1>>

\* C20: clearHistory() empties chatHistory and sets error to null, and leaves
\* currentCode and isLoading as they were, from any state.
C20_ClearHistoryFrame ==
  [][last'.op = "clearHistory"
       => store' = [store EXCEPT !.chatHistory = <<>>, !.error = Null]]_vars

\* C20 witness: clearHistory was called over a history, an error, a document
\* and isLoading true.
C20_Witness ==
  /\ last.op = "clearHistory"
  /\ last.pre.chatHistory # <<>>
  /\ last.pre.error # Null
  /\ last.pre.isLoading
  /\ last.pre.currentCode # <<>>
  /\ store.chatHistory = <<>>
  /\ store.error = Null
  /\ store.isLoading
  /\ store.currentCode # <<>>

\* C18: limitChatHistory returns, for a history longer than 6, exactly its last
\* 6 messages in their order, and for a history of at most 6 the history
\* itself.
C18_LimitKeepsLastSix ==
  last.op = "limitChatHistory"
    => LET h == last.arg
           r == last.result
           L == Len(h)
       IN  IF L > 2 * contextLimit
           THEN /\ Len(r) = 2 * contextLimit
                /\ \A j \in 1..(2 * contextLimit) : r[j] = h[L - 2 * contextLimit + j]
           ELSE r = h

\* C18 witness: limitChatHistory was given more than 6 messages whose first 6
\* are not its last 6.
C18_Witness ==
  /\ last.op = "limitChatHistory"
  /\ Len(last.arg) > 2 * contextLimit
  /\ Len(last.result) = 2 * contextLimit
  /\ last.result # SubSeq(last.arg, 1, 2 * contextLimit)

\* C19: validateChatHistoryLimit(h) is true exactly when h has at most 6
\* messages, exactly when limitChatHistory(h) = h, and it is true of every
\* result of limitChatHistory.
C19_ValidateAgreesWithLimit ==
  last.op = "validateChatHistoryLimit"
    => /\ last.result = (Len(last.arg) <= 2 * contextLimit)
       /\ last.result = (limitChatHistory(last.arg) = last.arg)
       /\ last.limited => last.result

\* C19 witness: validateChatHistoryLimit accepted the result of
\* limitChatHistory for a history of more than 6 messages.
C19_Witness ==
  /\ last.op = "validateChatHistoryLimit"
  /\ last.limited
  /\ Len(last.input) > 2 * contextLimit
  /\ last.arg = limitChatHistory(last.input)
  /\ last.result

\* C21: from any state, resetState() leaves the initial state (no history, no
\* document, isLoading false, error null) and clearAllData() leaves exactly
\* the same state.
C21_ResetAndClearAll ==
  [][last'.op \in {"resetState", "clearAllData"}
       => store' = [chatHistory |-> <<>>, currentCode |-> <<>>,
                    isLoading |-> FALSE, error |-> Null]]_vars

\* C21 witness: clearAllData was called over a history, a document and
\* isLoading true with an error set.
C21_Witness ==
  /\ last.op = "clearAllData"
  /\ last.pre.chatHistory # <<>>
  /\ last.pre.currentCode # <<>>
  /\ last.pre.isLoading
  /\ last.pre.error # Null
  /\ store = [chatHistory |-> <<>>, currentCode |-> <<>>,
              isLoading |-> FALSE, error |-> Null]

\* a timer callback of the component of toast id runs in this step
TimerRuns(id) == last'.op \in {"autoClose", "exitClose"} /\ last'.id = id

\* C22: once removeToast(id) has been called, no timer callback of that
\* toast's component runs and removeToast(id) is not called again by it.
C22_RemoveCancelsTimers ==
  [][\A id \in 1..Len(comps) : comps[id].removed => ~TimerRuns(id)]_vars

\* C23: the close path of a toast (auto-close timer, close button) calls
\* removeToast(id) at most once, in every interleaving.
C23_CloseRemovesOnce ==
  \A id \in 1..Len(comps) : comps[id].closes <= 1

\* the ids of a list of toasts, in order
Ids(ts) == [k \in 1..Len(ts) |-> ts[k].id]

\* s is t with position k taken out
TakenOut(s, t, k) ==
  /\ Len(s) = Len(t) - 1
  /\ \A j \in 1..Len(s) : s[j] = IF j < k THEN t[j] ELSE t[j + 1]

\* C24: removeToast(id) takes the toast with that id out of the list and
\* leaves the others as they were, in their order; with no such toast the
\* list is unchanged, so a second removeToast(id) changes nothing.
C24_RemoveExactlyOne ==
  [][last'.op = "removeToast"
       => /\ \A k \in 1..Len(toasts) :
               toasts[k].id = last'.id => TakenOut(toasts', toasts, k)
          /\ (\A k \in 1..Len(toasts) : toasts[k].id # last'.id)
               => toasts' = toasts
          /\ \A k \in 1..Len(toasts') : toasts'[k].id # last'.id]_vars

\* C24 witness: the middle one of three toasts was removed, and then removed
\* again.
C24_Witness ==
  /\ last.op = "removeToast"
  /\ last.id = 2
  /\ Len(comps) = 3
  /\ comps[2].removed
  /\ calls = 2
  /\ Ids(toasts) = <<1, 3>>

\* C25: clearToasts() leaves the list empty and cancels the timers of the
\* toasts that were listed: none of their timer callbacks runs afterwards, and
\* a timer never removes a toast other than its own.
C25_ClearCancelsTimers ==
  [][/\ last'.op = "clearToasts" => toasts' = <<>>
     /\ \A id \in 1..Len(comps) : comps[id].cleared => ~TimerRuns(id)
     /\ \A id \in 1..Len(comps) :
          TimerRuns(id)
            => \A k \in 1..Len(toasts) :
                 toasts[k].id # id
                   => \E j \in 1..Len(toasts') : toasts'[j] = toasts[k]]_vars

\* the lifetime of a category when none is given
CategoryDefault(type) ==
  CASE type = "error" -> 5000
    [] type = "warning" -> 4000
    [] type = "success" -> 3000
    [] type = "info" -> 3000

\* C26: the auto-close timer of a toast is started with the duration given
\* to the call that added it, addToast or a show* wrapper, and with the
\* default of its category when none was given.
C26_DefaultLifetimes ==
  \A id \in 1..Len(comps) :
    (Listed(id) /\ comps[id].auto # "none")
      => comps[id].delay =
           IF comps[id].given.duration # 0
           THEN comps[id].given.duration
           ELSE CategoryDefault(ToastOf(id).type)

\* C27: the user message added by an accepted sendPromptAndUpdateCode(prompt)
\* has role user and the trimmed prompt as its content, whoever the caller is.
C27_UserTurnTrimmed ==
  [][last'.op = "continue"
       => LET h == store'.chatHistory
          IN  /\ h # <<>>
              /\ h[Len(h)].role = "user"
              /\ h[Len(h)].content = Trim(orchs[last'.arg].prompt)]_vars

\* C28: the messages sent to the model are the store's history as it is right
\* after the user message was added, whatever was called on the store since
\* the start of the orchestration.
C28_ContextIsStoreHistory ==
  (last.op = "continue" /\ last.outcome = "invoked")
    => last.context = store.chatHistory

\* some API key is configured, in localStorage, on window or in process.env
HasKey(env) ==
  \E f \in {"lsOpenai", "lsGemini", "winOpenai", "winGemini", "envOpenai", "envGemini"} :
    env[f] # Null /\ env[f][1] # <<>>

\* C29: with no API key configured, an accepted sendPromptAndUpdateCode fails
\* with CONFIG_ERROR before fetch is called or the timer started, and leaves
\* isLoading false and error set.
C29_ConfigErrorBeforeCall ==
  [][\A i \in 1..Len(orchs), env \in Envs :
       (Continue(i, env) /\ ~HasKey(env))
         => /\ last'.outcome = "failed"
            /\ last'.code = "CONFIG_ERROR"
            /\ orchs'[i].api = "none"
            /\ orchs'[i].timer = "none"
            /\ orchs'[i].pc = "done"
            /\ ~store'.isLoading
            /\ store'.error # Null]_vars

\* C29 witness: a call failed with CONFIG_ERROR without fetch having been
\* called, its user message in the history.
C29_Witness ==
  /\ last.op = "continue"
  /\ last.code = "CONFIG_ERROR"
  /\ orchs[last.arg].api = "none"
  /\ orchs[last.arg].pc = "done"
  /\ ~store.isLoading
  /\ store.error # Null
  /\ store.chatHistory # <<>>

\* C30: an accepted sendPromptAndUpdateCode calls the model at most once: the
\* request starts once, after the imports, goes from pending to settled only,
\* and a call that failed is done and stays done.
C30_NoRetry ==
  [][\A i \in 1..Len(orchs) :
       /\ orchs[i].api # "none" => orchs'[i].api \in {orchs[i].api, "settled"}
       /\ (orchs[i].api = "none" /\ orchs'[i].api # "none")
            => (orchs'[i].api = "pending" /\ orchs[i].pc = "importing")
       /\ (OrchStep(last') /\ last'.arg = i /\ last'.outcome = "failed")
            => orchs'[i].pc = "done"
       /\ orchs[i].pc = "done" => orchs'[i].pc = "done"]_vars

\* C30 witness: after a first call failed at the model, the model was called
\* for a second accepted call.
C30_Witness ==
  /\ last.op = "continue"
  /\ last.outcome = "invoked"
  /\ last.arg = 2
  /\ orchs[1].pc = "done"
  /\ orchs[1].api = "settled"
  /\ orchs[2].api = "pending"

\* C31: when a step of sendPromptAndUpdateCode has failed, the store's error
\* is set and the toast list holds an error toast for it.
C31_FailureNotified ==
  (OrchStep(last) /\ last.outcome = "failed")
    => /\ store.error # Null
       /\ \E k \in 1..Len(toasts) : toasts[k].type = "error"

\* C32: while a call of sendPromptAndUpdateCode that passed its guard has not
\* returned, isLoading is true.
C32_LoadingWhileInFlight == AnyInFlight => store.isLoading

\* C37: when clearAllData or resetState ran while a call was awaiting its
\* answer, the answer applied next leaves the history and the code as the
\* clearing left them.
C37_ClearedStaysCleared ==
  [][(/\ last.op \in {"clearAllData", "resetState"}
      /\ last'.op = "apiSettle"
      /\ last'.outcome = "applied")
       => (/\ store'.chatHistory = store.chatHistory
           /\ store'.currentCode = store.currentCode)]_vars

\* C33: the effects of an accepted call come in this order.  The call itself
\* clears error and sets isLoading before its first await and appends
\* nothing; the step after the imports appends the user turn and only then
\* sends the request or fails; an answer is applied, or a failure reported,
\* only by a call whose request was sent and not decided yet: the applied
\* answer ends the history with the assistant turn and is the code, a failure
\* sets error and appends nothing.
C33_EffectOrder ==
  [][/\ (last'.op = "sendPromptAndUpdateCode" /\ last'.accepted)
          => /\ store'.error = Null
             /\ store'.isLoading
             /\ store'.chatHistory = store.chatHistory
             /\ orchs'[Len(orchs')].pc = "importing"
             /\ orchs'[Len(orchs')].api = "none"
     /\ last'.op = "continue"
          => LET h == store'.chatHistory
             IN  /\ orchs[last'.arg].api = "none"
                 /\ h # <<>>
                 /\ h[Len(h)].role = "user"
                 /\ last'.outcome = "invoked" => orchs'[last'.arg].api = "pending"
                 /\ last'.outcome = "failed" => store'.error # Null
     /\ (last'.op = "apiSettle" /\ last'.outcome = "applied")
          => LET h == store'.chatHistory
             IN  /\ orchs[last'.arg].pc = "awaiting"
                 /\ orchs[last'.arg].api = "pending"
                 /\ h # <<>>
                 /\ h[Len(h)].role = "assistant"
                 /\ h[Len(h)].content = last'.content[1]
                 /\ store'.currentCode = last'.content[1]
                 /\ store'.error = Null
     /\ (last'.op \in {"apiSettle", "timerFire"} /\ last'.outcome = "failed")
          => /\ orchs[last'.arg].pc = "awaiting"
             /\ orchs[last'.arg].api # "none"
             /\ store'.error # Null
             /\ store'.chatHistory = store.chatHistory
             /\ store'.currentCode = store.currentCode]_vars

\* C33 witness: an answer was applied and the history ends with the user turn
\* followed by the assistant turn.
C33_Witness ==
  /\ last.op = "apiSettle"
  /\ last.outcome = "applied"
  /\ Len(store.chatHistory) >= 2
  /\ store.chatHistory[Len(store.chatHistory) - 1].role = "user"
  /\ store.chatHistory[Len(store.chatHistory)].role = "assistant"
  /\ store.currentCode = last.content[1]

\* C34: the answer an orchestration applies replaces the code: right after
\* the step currentCode is the content of the answer, whatever the code was
\* and whatever updateCode calls were made while the request was pending.
C34_AnswerReplacesCode ==
  [][(last'.op = "apiSettle" /\ last'.outcome = "applied")
       => store'.currentCode = last'.content[1]]_vars

\* C34 witness: the only call in flight applied an answer over code that an
\* updateCode call had written, with other text, while the call was in flight.
C34_Witness ==
  /\ last.op = "apiSettle"
  /\ last.outcome = "applied"
  /\ Len(orchs) = 1
  /\ orchs[1].pre = Null
  /\ last.before # initialState.currentCode
  /\ last.before # last.content[1]
  /\ store.currentCode = last.content[1]

\* C35: a toast added without autoClose: false is eventually off the list,
\* when the container renders and the timers run, whatever else is added,
\* removed or closed.
C35_AutoCloseRemoves ==
  \A id \in 1..MaxToasts :
    (Listed(id) /\ comps[id].given.autoClose # "false") ~> ~Listed(id)

\* C35 witness: a toast added by addToast with no options went off the list
\* through its own timers, with no click and no call of removeToast or
\* clearToasts, while a second toast had been added.
C35_Witness ==
  /\ Len(comps) = 2
  /\ calls = 0
  /\ \E id \in 1..Len(comps) :
       /\ comps[id].op = "addToast"
       /\ comps[id].given = NoOptions
       /\ comps[id].auto = "fired"
       /\ comps[id].clicks = 0
       /\ comps[id].closes = 1
       /\ ~Listed(id)

\* C36: a toast added with autoClose: false never has an auto-close timer,
\* and it leaves the list only by removeToast with its id, by the close
\* button of its component, or by clearToasts.
C36_NoTimerWithoutAutoClose ==
  [][\A id \in 1..Len(comps') :
       comps'[id].given.autoClose = "false"
         => /\ comps'[id].auto = "none"
            /\ (Listed(id) /\ ~(\E k \in 1..Len(toasts') : toasts'[k].id = id))
                 => \/ last'.op = "removeToast" /\ last'.id = id
                    \/ last'.op = "exitClose" /\ last'.id = id /\ comps[id].clicks > 0
                    \/ last'.op = "clearToasts"]_vars

\* C36 witness: a toast added by showError with autoClose: false is mounted
\* and listed after another toast has come and gone by its timers.
C36_Witness ==
  \E id \in 1..Len(comps), other \in 1..Len(comps) :
    /\ comps[id].op = "showError"
    /\ comps[id].given.autoClose = "false"
    /\ comps[id].mounted = "yes"
    /\ Listed(id)
    /\ comps[other].given.autoClose # "false"
    /\ comps[other].auto = "fired"
    /\ comps[other].closes = 1
    /\ comps[other].mounted = "gone"

\* C38: emit calls the callbacks that were registered for the type of the
\* event when it started, each once and in the order of their subscription,
\* and no others.
C38_EmitCallsEveryListener ==
  last.op = "emit" => last.invoked = last.before

\* C39: emit never throws; when none of the callbacks unsubscribes, a
\* callback that throws keeps no other callback from being called and the
\* listeners are as they were.
C39_ThrowingCallbackIsContained ==
  [][last'.op = "emit"
       => /\ ~last'.threw
          /\ (\A k \in 1..Len(last'.before) : last'.before[k] # "once")
               => /\ last'.invoked = last'.before
                  /\ listeners' = listeners
                  /\ arrays' = arrays]_vars

\* C39 witness: an emit called a throwing callback and then the two callbacks
\* registered after it.
C39_Witness ==
  /\ last.op = "emit"
  /\ Len(last.before) = 3
  /\ last.before[1] = "throwing"
  /\ last.before[2] # "once"
  /\ last.before[3] # "once"
  /\ last.invoked = last.before
  /\ ~last.threw

\* C40: an unsubscribe function called for the second time leaves the
\* listeners as they are.
C40_UnsubscribeIdempotent ==
  [][(last'.op = "unsubscribe" /\ last'.again)
       => (listeners' = listeners /\ arrays' = arrays)]_vars

====
